---- MODULE Spec2Model ----
(***************************************************************************)
(* Tax liability engine of backend/app/agents/tax_calculation_agent.py     *)
(* (class TaxCalculationAgent): slab evaluator, per-slab breakdown, the    *)
(* two regime calculators, the cess, the regime comparison, the           *)
(* recommendations, and the optional AI agent of swarms_compat.py.         *)
(*                                                                         *)
(* State.  tax_constants, use_real_agent and agent are the attributes of   *)
(* the one agent; now is the last reading of datetime.now(); threads holds *)
(* the position and the locals of each concurrent call; call and ret are   *)
(* the latest call that returned and its result.                           *)
(*                                                                         *)
(* Units.  The profile fields and the slab tables are whole rupees.  The   *)
(* code computes income * 0.5 (HRA) and (amount * rate) / 100 and          *)
(* tax * 0.04, so exact arithmetic needs fractions of a rupee:             *)
(*   - money amounts inside the calculators are in HALF-RUPEES, Amt(r);    *)
(*   - tax amounts are in 1/5000 of a rupee, Tx(r): an amount of h         *)
(*     half-rupees taxed at rate% is (h/2)*rate/100 rupees, that is        *)
(*     h*rate*25 units, and 4% of a tax of u units is u/25 units.          *)
(* Binary floating-point rounding of the Python floats is not modelled:    *)
(* arithmetic is exact.                                                    *)
(***************************************************************************)
EXTENDS Integers, Sequences, FiniteSets, TLC

VARIABLES tax_constants, use_real_agent, agent, now, threads, call, ret

vars == <<tax_constants, use_real_agent, agent, now, threads, call, ret>>

(* ---------------------------------------------------------------------- *)
(* Bounds of the model                                                     *)
(* ---------------------------------------------------------------------- *)

\* Inputs are drawn from windows of this half-width around the thresholds.
Window == 1

Around(S) == {b + d : b \in S, d \in (0 - Window)..Window}

\* Taxable incomes handed directly to the slab evaluator and the breakdown.
TaxableIncomes ==
    {t \in Around({0, 100000, 250000, 300000, 500000, 600000, 900000, 1000000,
                   1200000, 1500000, 1950000}) : t >= 0}

\* Values of the profile fields (whole rupees).  A key may also be absent.
Incomes ==
    Around({0, 1000000}) \cup {500000, 500001, 800000, 1200000, 2000000}
Investments80c == {-1, 0, 50000, 120000, 200000}
HealthInsurances == {0, 15000, 1000000}
HomeLoanInterests == {0, 80000, 250000}
HraClaims == {0, 1500000}

\* Readings of datetime.now(): each request reads a later time than the one
\* before, and at most MaxClock requests are made.
MaxClock == 2

\* The threads that call calculate_tax_liability on the one agent of main.py
NumThreads == 2
Threads == 1..NumThreads

\* The profiles of the concurrent requests: the scenario profile, a high
\* income alone, and the empty profile
ConcScenario ==
    [annual_income |-> 800000, investments_80c |-> 50000, health_insurance |-> 15000,
     home_loan_interest |-> 80000, hra_claimed |-> 0]
ConcProfiles ==
    {[k \in DOMAIN ConcScenario |-> ConcScenario[k]],
     [k \in {"annual_income"} |-> 2000000],
     [k \in {} |-> 0]}

\* Lengths of the text an AI reply can have: up to the 500 characters kept
\* of it, and more.
ResponseLengths == {500, 501}

\* The dictionaries handed to the two public methods when values of any
\* type are allowed: the numeric values come from the requests of
\* test_tax_agent.py, an empty dictionary and a negative income; at most one
\* key holds a value that is not a number.
ApiProfiles ==
    {[annual_income |-> 800000, investments_80c |-> 50000, health_insurance |-> 15000,
      home_loan_interest |-> 80000],
     [annual_income |-> 1500000, investments_80c |-> 100000, health_insurance |-> 25000,
      home_loan_interest |-> 150000],
     [annual_income |-> 0, hra_claimed |-> 0],
     [k \in {"annual_income"} |-> -1],
     [k \in {} |-> 0]}

UserKeys == {"annual_income", "age", "80c", "80d", "home_loan"}
InvestmentKeys == {"80c", "80d", "home_loan"}

UserProfiles ==
    {[age |-> 28, annual_income |-> 1200000, 80c |-> 75000, 80d |-> 10000],
     [age |-> 35, annual_income |-> 1000000, 80c |-> 60000],
     [age |-> 60, annual_income |-> 800000, 80c |-> 50000, 80d |-> 15000,
      home_loan |-> 80000],
     [annual_income |-> 1500000, 80c |-> 100000, 80d |-> 25000, home_loan |-> 150000],
     [k \in {} |-> 0]}

\* The subsets of S with at most one element
AtMostOne(S) == {{}} \cup {{k} : k \in S}

Keys == {"annual_income", "investments_80c", "health_insurance",
         "home_loan_interest", "hra_claimed"}

ValuesOf(k) ==
    CASE k = "annual_income"      -> Incomes
      [] k = "investments_80c"    -> Investments80c
      [] k = "health_insurance"   -> HealthInsurances
      [] k = "home_loan_interest" -> HomeLoanInterests
      [] k = "hra_claimed"        -> HraClaims

\* The profiles a caller may submit: any subset of the keys, any values.
FullProfiles ==
    [annual_income : Incomes, investments_80c : Investments80c,
     health_insurance : HealthInsurances, home_loan_interest : HomeLoanInterests,
     hra_claimed : HraClaims]

\* The profiles a caller may submit: any subset of the keys, any values.
Profiles == {[k \in D |-> r[k]] : r \in FullProfiles, D \in SUBSET Keys}

\* The profiles that differ from fd in at most one key (added, removed or
\* changed): consecutive requests of a run differ by one key, so that every
\* profile is reached and every pair of profiles is linked by a chain.
OneKeyAway(fd) ==
    {fd}
    \cup {[k \in DOMAIN fd \ {x} |-> fd[k]] : x \in DOMAIN fd}
    \cup UNION {{[k \in DOMAIN fd \cup {x} |-> IF k = x THEN v ELSE fd[k]] :
                    v \in ValuesOf(x)} : x \in Keys}

\* The profiles sent to an agent that was asked for a real AI agent
AiIncomes == {-1, 800000, 1200000}
AiInvestments80c == {50000, 200000}
IsAiProfile(p) ==
    /\ "annual_income" \in DOMAIN p => p["annual_income"] \in AiIncomes
    /\ "investments_80c" \in DOMAIN p => p["investments_80c"] \in AiInvestments80c
    /\ "health_insurance" \in DOMAIN p => p["health_insurance"] = 15000
    /\ "home_loan_interest" \in DOMAIN p => p["home_loan_interest"] = 80000
    /\ "hra_claimed" \in DOMAIN p => p["hra_claimed"] = 0
AiProfiles == {p \in Profiles : IsAiProfile(p)}

(* ---------------------------------------------------------------------- *)
(* Units                                                                   *)
(* ---------------------------------------------------------------------- *)

Amt(rupees) == 2 * rupees
Tx(rupees) == 5000 * rupees

Min(a, b) == IF a <= b THEN a ELSE b
Max(a, b) == IF a >= b THEN a ELSE b

(* ---------------------------------------------------------------------- *)
(* TaxCalculationAgent.__init__ : tax_constants                            *)
(* ---------------------------------------------------------------------- *)

\* float('inf'), the upper bound of the last slab of each table
inf == 2147483647

standard_deduction == 50000
section_80c_limit == 150000
section_80d_limit == 25000

old_regime_slabs ==
    << [min |-> 0,       max |-> 250000,  rate |-> 0],
       [min |-> 250001,  max |-> 500000,  rate |-> 5],
       [min |-> 500001,  max |-> 1000000, rate |-> 20],
       [min |-> 1000001, max |-> inf,     rate |-> 30] >>

new_regime_slabs ==
    << [min |-> 0,       max |-> 300000,  rate |-> 0],
       [min |-> 300001,  max |-> 600000,  rate |-> 5],
       [min |-> 600001,  max |-> 900000,  rate |-> 10],
       [min |-> 900001,  max |-> 1200000, rate |-> 15],
       [min |-> 1200001, max |-> 1500000, rate |-> 20],
       [min |-> 1500001, max |-> inf,     rate |-> 30] >>

InitialTaxConstants ==
    [standard_deduction |-> standard_deduction,
     section_80c_limit  |-> section_80c_limit,
     section_80d_limit  |-> section_80d_limit,
     old_regime_slabs   |-> old_regime_slabs,
     new_regime_slabs   |-> new_regime_slabs]

(* ---------------------------------------------------------------------- *)
(* _calculate_tax_by_slabs                                                 *)
(* ---------------------------------------------------------------------- *)

\* slab["min"] / slab["max"] in half-rupees; inf stays inf
SlabMin(slab) == Amt(slab.min)
SlabMax(slab, remaining_income) ==
    IF slab.max # inf THEN Amt(slab.max) ELSE remaining_income + SlabMin(slab)

\* slab_tax = (taxable_in_slab * slab["rate"]) / 100, in 1/5000 rupee
SlabTax(taxable_in_slab, rate) == taxable_in_slab * rate * 25

\* Variant of the loop that assigns total_tax = slab_tax instead of adding.
RECURSIVE SlabLoopOverwrite(_, _, _, _)
SlabLoopOverwrite(i, total_tax, remaining_income, tax_slabs) ==
    IF i > Len(tax_slabs) THEN total_tax
    ELSE IF remaining_income <= 0 THEN total_tax
    ELSE LET slab == tax_slabs[i]
             slab_min == SlabMin(slab)
             slab_max == SlabMax(slab, remaining_income)
             taxable_in_slab == Min(remaining_income - slab_min, slab_max - slab_min)
         IN  IF remaining_income > slab_min /\ taxable_in_slab > 0
             THEN SlabLoopOverwrite(i + 1, SlabTax(taxable_in_slab, slab.rate),
                                    remaining_income, tax_slabs)
             ELSE SlabLoopOverwrite(i + 1, total_tax, remaining_income, tax_slabs)

\* The for loop of _calculate_tax_by_slabs from slab i on.  remaining_income
\* is never reduced by the loop: every slab sees the whole taxable income.
RECURSIVE SlabLoop(_, _, _, _)
SlabLoop(i, total_tax, remaining_income, tax_slabs) ==
    IF i > Len(tax_slabs) THEN total_tax
    ELSE IF remaining_income <= 0 THEN total_tax
    ELSE LET slab == tax_slabs[i]
             slab_min == SlabMin(slab)
             slab_max == SlabMax(slab, remaining_income)
             taxable_in_slab == Min(remaining_income - slab_min, slab_max - slab_min)
         IN  IF remaining_income > slab_min /\ taxable_in_slab > 0
             THEN SlabLoop(i + 1, total_tax + SlabTax(taxable_in_slab, slab.rate),
                           remaining_income, tax_slabs)
             ELSE SlabLoop(i + 1, total_tax, remaining_income, tax_slabs)

_calculate_tax_by_slabs(taxable_income, tax_slabs) ==
    SlabLoop(1, 0, taxable_income, tax_slabs)

\* What evaluating a table leaves in the table: line 336 binds the local
\* slab_max and assigns to no slab.  The variant stores the bound of the
\* open slab in the slab itself.
SlabsAfterEvaluationInPlace(tax_slabs, taxable_income) ==
    [i \in DOMAIN tax_slabs |->
        IF tax_slabs[i].max = inf /\ taxable_income > 0
        THEN [tax_slabs[i] EXCEPT !.max = (taxable_income \div 2) + tax_slabs[i].min]
        ELSE tax_slabs[i]]
SlabsAfterEvaluation(tax_slabs, taxable_income) == tax_slabs

(* ---------------------------------------------------------------------- *)
(* _get_tax_breakdown                                                      *)
(* ---------------------------------------------------------------------- *)

SlabsOf(constants, regime) ==
    IF regime = "old" THEN constants.old_regime_slabs ELSE constants.new_regime_slabs

\* The for loop of _get_tax_breakdown from slab i on.  Here remaining_income
\* IS reduced by what each slab took, and then compared with the next
\* slab's absolute lower bound.
RECURSIVE BreakdownLoop(_, _, _, _)
BreakdownLoop(i, breakdown, remaining_income, slabs) ==
    IF i > Len(slabs) THEN breakdown
    ELSE IF remaining_income <= 0 THEN breakdown
    ELSE LET slab == slabs[i]
             slab_min == SlabMin(slab)
             slab_max == SlabMax(slab, remaining_income)
             taxable_in_slab == Min(remaining_income - slab_min, slab_max - slab_min)
         IN  IF remaining_income > slab_min /\ taxable_in_slab > 0
             THEN BreakdownLoop(i + 1,
                      Append(breakdown,
                             [slab |-> <<slab_min, slab_max>>,
                              rate |-> slab.rate,
                              tax |-> SlabTax(taxable_in_slab, slab.rate),
                              taxable_amount |-> taxable_in_slab]),
                      remaining_income - taxable_in_slab, slabs)
             ELSE BreakdownLoop(i + 1, breakdown, remaining_income, slabs)

_get_tax_breakdown(constants, taxable_income, regime) ==
    BreakdownLoop(1, <<>>, taxable_income, SlabsOf(constants, regime))

(* ---------------------------------------------------------------------- *)
(* _calculate_old_regime / _calculate_new_regime                           *)
(* ---------------------------------------------------------------------- *)

\* tax * 0.04, exact because every tax is a multiple of 25 units
CessWithSurcharge(tax) == tax \div 25 + (IF tax > Tx(250000) THEN tax \div 100 ELSE 0)
Cess(tax) == tax \div 25

\* income * 0.5 on an amount in half-rupees (always an even number of them)
HalfOf(income) == income \div 2

\* deduction_80c = min(investments_80c, section_80c_limit)
UncappedDeduction80c(constants, investments_80c) == investments_80c
Deduction80c(constants, investments_80c) ==
    Min(investments_80c, Amt(constants.section_80c_limit))

\* deduction_80d = min(health_insurance, section_80d_limit)
Deduction80d(constants, health_insurance) ==
    Min(health_insurance, Amt(constants.section_80d_limit))

\* deduction_24b = min(home_loan, 200000)
Deduction24b(home_loan) == Min(home_loan, Amt(200000))

\* deduction_hra = min(hra, income * 0.5)
DeductionHra(hra, income) == Min(hra, HalfOf(income))

\* total_deductions = standard_deduction + deduction_80c + deduction_80d
\*                    + deduction_24b + deduction_hra
TotalDeductionsWithout24b(std, d_80c, d_80d, d_24b, d_hra) == std + d_80c + d_80d + d_hra
TotalDeductions(std, d_80c, d_80d, d_24b, d_hra) == std + d_80c + d_80d + d_24b + d_hra

\* taxable_income = max(0, income - total_deductions)
UnclampedTaxableIncome(income, total_deductions) == income - total_deductions
TaxableIncome(income, total_deductions) == Max(0, income - total_deductions)

_calculate_old_regime(constants, income, investments_80c, health_insurance, home_loan, hra) ==
    LET std == Amt(constants.standard_deduction)
        deduction_80c == Deduction80c(constants, investments_80c)
        deduction_80d == Deduction80d(constants, health_insurance)
        deduction_24b == Deduction24b(home_loan)
        deduction_hra == DeductionHra(hra, income)
        total_deductions == TotalDeductions(std, deduction_80c, deduction_80d,
                                            deduction_24b, deduction_hra)
        taxable_income == TaxableIncome(income, total_deductions)
        tax == _calculate_tax_by_slabs(taxable_income, constants.old_regime_slabs)
        cess == Cess(tax)
        total_tax == tax + cess
    IN  [gross_income |-> income,
         deductions |-> [standard_deduction |-> std,
                         section_80c |-> deduction_80c,
                         section_80d |-> deduction_80d,
                         section_24b |-> deduction_24b,
                         hra |-> deduction_hra,
                         other |-> 0,
                         total |-> total_deductions],
         taxable_income |-> taxable_income,
         tax_before_cess |-> tax,
         cess |-> cess,
         total_tax |-> total_tax,
         taxLiability |-> total_tax]

\* taxable_income = max(0, income - standard_deduction)
NewTaxableIncomeNoDeduction(income, std) == Max(0, income)
NewTaxableIncomeUnclamped(income, std) == income - std
NewTaxableIncome(income, std) == Max(0, income - std)

_calculate_new_regime(constants, income) ==
    LET std == Amt(constants.standard_deduction)
        taxable_income == NewTaxableIncome(income, std)
        tax == _calculate_tax_by_slabs(taxable_income, constants.new_regime_slabs)
        cess == Cess(tax)
        total_tax == tax + cess
    IN  [gross_income |-> income,
         deductions |-> [standard_deduction |-> std,
                         section_80c |-> 0,
                         section_80d |-> 0,
                         section_24b |-> 0,
                         hra |-> 0,
                         other |-> 0,
                         total |-> std],
         taxable_income |-> taxable_income,
         tax_before_cess |-> tax,
         cess |-> cess,
         total_tax |-> total_tax,
         taxLiability |-> total_tax]

(* ---------------------------------------------------------------------- *)
(* _mock_tax_calculation / calculate_tax_liability                         *)
(* ---------------------------------------------------------------------- *)

\* financial_data.get(key, default)
Get(financial_data, key, default) ==
    IF key \in DOMAIN financial_data THEN financial_data[key] ELSE default

\* float(x) of a whole number of rupees: the amount in half-rupees
Float(x) == Amt(x)

\* "old" if old_regime["total_tax"] < new_regime["total_tax"] else "new"
OptimalRegimeReversed(old_total_tax, new_total_tax) ==
    IF old_total_tax > new_total_tax THEN "old" ELSE "new"
OptimalRegimeTiesOld(old_total_tax, new_total_tax) ==
    IF old_total_tax <= new_total_tax THEN "old" ELSE "new"
OptimalRegime(old_total_tax, new_total_tax) ==
    IF old_total_tax < new_total_tax THEN "old" ELSE "new"

\* abs(...) of the difference of the two total_tax; the variant keeps the sign
AbsSigned(x) == x
Abs(x) == IF x < 0 THEN 0 - x ELSE x

(* Rounding: round(x, 2) of a percentage and f"{x:,.0f}".  Python rounds   *)
(* half to even; here on the exact quotient (on an exact tie the float of  *)
(* the code may lie on either side of it).                                 *)

\* num / den rounded half to even, for num >= 0 and den > 0
RoundHalfEven(num, den) ==
    LET q == num \div den
        r == num % den
    IN  IF r > den - r THEN q + 1
        ELSE IF r = den - r THEN q + (q % 2)
        ELSE q

\* k * d <= 10 * r, computed without forming either product
Fits(k, r, d) ==
    LET t == r - k * (d \div 10)
    IN  IF t >= 9 THEN TRUE
        ELSE IF t < 0 THEN FALSE
        ELSE 10 * t >= k * (d % 10)

\* One decimal digit of long division: from the quotient and remainder so
\* far to the quotient and remainder with one more digit.
\* The digit is the largest k with k * d <= 10 * r; r \div (d \div 10) is
\* that digit or the next one for the denominators used here (d >= 100).
NextDigit(qr, d) ==
    LET k0 == Min(9, qr.r \div (d \div 10))
        k == CHOOSE j \in Max(0, k0 - 1)..k0 :
                 Fits(j, qr.r, d) /\ (j = 9 \/ ~Fits(j + 1, qr.r, d))
    IN  [q |-> 10 * qr.q + k,
         r |-> 10 * (qr.r - k * (d \div 10)) - k * (d % 10)]

\* (num / den) * 100 in hundredths of a per cent (1045 is 10.45): the whole
\* hundredths q and what is left of the division, r / den of a hundredth
PercentDivision(num, den) ==
    NextDigit(NextDigit(NextDigit(NextDigit([q |-> num \div den, r |-> num % den],
                                            den), den), den), den)

\* round((num / den) * 100, 2) in hundredths of a per cent, for 0 < den
RoundedPercent(num, den) ==
    LET d4 == PercentDivision(num, den)
    IN  IF d4.r > den - d4.r THEN d4.q + 1
        ELSE IF d4.r = den - d4.r THEN d4.q + (d4.q % 2)
        ELSE d4.q

\* round((total_tax / annual_income) * 100, 2) if annual_income > 0 else 0.
\* total_tax is a multiple of 10 units, and (u/5000) / (h/2) = (u/10) / (250 h).
EffectiveRate(total_tax, annual_income) ==
    IF annual_income > 0 THEN RoundedPercent(total_tax \div 10, 250 * annual_income) ELSE 0

\* round((tax_savings / max(old total_tax, new total_tax, 1)) * 100, 2)
SavingsDenominator(old_total_tax, new_total_tax) ==
    Max(Max(old_total_tax, new_total_tax), Tx(1))
SavingsPercentage(tax_savings, old_total_tax, new_total_tax) ==
    RoundedPercent(tax_savings, SavingsDenominator(old_total_tax, new_total_tax))

(* _get_recommendation_reason / _get_tax_planning_tips                     *)

\* The sentence chosen and the whole rupees of f"{savings:,.0f}" in it
_get_recommendation_reason(income, investments_80c, optimal_regime, savings) ==
    [sentence |-> IF optimal_regime = "old"
                  THEN (IF investments_80c < Amt(100000)
                        THEN "Old regime saves; maximize 80C"
                        ELSE "Old regime is optimal")
                  ELSE "New regime saves",
     savings |-> RoundHalfEven(savings, Tx(1))]

_get_tax_planning_tips(income, regime) ==
    (IF regime = "old"
     THEN << "Maximize 80C investments before March 31st",
             "Consider health insurance for 80D benefits",
             "Plan HRA if you pay rent" >>
     ELSE << "Focus on wealth creation without tax constraints",
             "Consider equity investments for long-term growth",
             "No rush for tax-saving investments" >>)
    \o (IF income > Amt(1000000)
        THEN << "Consider NPS for additional 50K deduction under 80CCD(1B)" >> ELSE << >>)
    \o (IF income > Amt(500000)
        THEN << "Plan advance tax payments to avoid penalties" >> ELSE << >>)

(* _generate_investment_recommendations                                    *)

\* remaining_80c = max(0, section_80c_limit - existing_80c)
Remaining80c(constants, existing_80c) ==
    Max(0, Amt(constants.section_80c_limit) - existing_80c)

\* tax_bracket = 0.30 if income > 1000000 else 0.20 if income > 500000 else 0.05,
\* in per cent
TaxBracket(income) ==
    IF income > Amt(1000000) THEN 30 ELSE IF income > Amt(500000) THEN 20 ELSE 5

\* amount * tax_bracket, in 1/5000 rupee
BracketSaving(amount, bracket) == SlabTax(amount, bracket)

\* elss_amount = min(remaining_80c, 50000); the variant has no cap
ElssAmountUncapped(remaining_80c) == remaining_80c
ElssAmount(remaining_80c) == Min(remaining_80c, Amt(50000))

\* ppf_amount = min(remaining_80c - elss_amount, 100000)
PpfAmount(remaining_80c, elss_amount) == Min(remaining_80c - elss_amount, Amt(100000))

\* The recommendations appended inside `if optimal_regime == "old"`
Section80cRecommendations(constants, income, existing_80c) ==
    LET remaining_80c == Remaining80c(constants, existing_80c)
        tax_bracket == TaxBracket(income)
        elss_amount == ElssAmount(remaining_80c)
        ppf_amount == PpfAmount(remaining_80c, elss_amount)
    IN  IF remaining_80c > 0
        THEN << [type |-> "ELSS Mutual Funds", section |-> "80C",
                 suggested_amount |-> elss_amount,
                 tax_saving |-> BracketSaving(elss_amount, tax_bracket),
                 risk_level |-> "Medium to High"] >>
             \o (IF remaining_80c > elss_amount
                 THEN << [type |-> "Public Provident Fund (PPF)", section |-> "80C",
                          suggested_amount |-> ppf_amount,
                          tax_saving |-> BracketSaving(ppf_amount, tax_bracket),
                          risk_level |-> "Low"] >>
                 ELSE << >>)
        ELSE << >>

RECURSIVE SumTaxSaving(_)
SumTaxSaving(recs) ==
    IF recs = << >> THEN 0 ELSE Head(recs).tax_saving + SumTaxSaving(Tail(recs))

\* The variant appends the health insurance entry inside
\* `if optimal_regime == "old"` as well
RecommendationsOnlyUnderOld(constants, income, existing_80c, optimal_regime) ==
    LET recommendations ==
            IF optimal_regime = "old"
            THEN Section80cRecommendations(constants, income, existing_80c)
                 \o << [type |-> "Health Insurance Premium", section |-> "80D",
                        suggested_amount |-> Amt(25000),
                        tax_saving |-> BracketSaving(Amt(25000),
                                                     IF income > Amt(1000000) THEN 30 ELSE 20),
                        risk_level |-> "None"] >>
            ELSE << >>
    IN  [investment_suggestions |-> recommendations,
         total_potential_savings |-> SumTaxSaving(recommendations)]
_generate_investment_recommendations(constants, income, existing_80c, optimal_regime) ==
    LET recommendations ==
            (IF optimal_regime = "old"
             THEN Section80cRecommendations(constants, income, existing_80c)
             ELSE << >>)
            \o << [type |-> "Health Insurance Premium", section |-> "80D",
                   suggested_amount |-> Amt(25000),
                   tax_saving |-> BracketSaving(Amt(25000),
                                                IF income > Amt(1000000) THEN 30 ELSE 20),
                   risk_level |-> "None"] >>
    IN  [investment_suggestions |-> recommendations,
         total_potential_savings |-> SumTaxSaving(recommendations)]

(* _get_investment_suggestions_for_frontend                                *)

_get_investment_suggestions_for_frontend(constants, income, existing_80c) ==
    LET remaining_80c == Remaining80c(constants, existing_80c)
        tax_bracket == TaxBracket(income)
        elss_amount == Min(Amt(50000), remaining_80c)
        ppf_amount == Min(Amt(100000), remaining_80c - elss_amount)
    IN  (IF remaining_80c > 0
         THEN << [type |-> "ELSS Mutual Funds", amount |-> elss_amount,
                  tax_benefit |-> BracketSaving(elss_amount, tax_bracket),
                  category |-> "80C", risk |-> "Medium to High"] >>
              \o (IF remaining_80c > elss_amount
                  THEN << [type |-> "Public Provident Fund (PPF)", amount |-> ppf_amount,
                           tax_benefit |-> BracketSaving(ppf_amount, tax_bracket),
                           category |-> "80C", risk |-> "Low"] >>
                  ELSE << >>)
         ELSE << >>)
        \o << [type |-> "Health Insurance Premium", amount |-> Amt(25000),
               tax_benefit |-> BracketSaving(Amt(25000), tax_bracket),
               category |-> "80D", risk |-> "None"] >>

(* _generate_action_items                                                  *)

\* The variant suggests the NPS from income 1000000 on, not above it
ActionItemsNpsFromTenLakh(constants, existing_80c, recommendations, income) ==
    LET remaining_80c == Remaining80c(constants, existing_80c)
        tax_bracket == TaxBracket(income)
    IN  (IF remaining_80c > 0
         THEN << [priority |-> "High",
                  action |-> "Invest remaining in 80C instruments",
                  amount |-> remaining_80c,
                  impact |-> BracketSaving(remaining_80c, tax_bracket)] >>
         ELSE << >>)
        \o << [priority |-> "Medium",
               action |-> "Review and optimize health insurance coverage",
               amount |-> Amt(25000),
               impact |-> BracketSaving(Amt(25000), tax_bracket)] >>
        \o (IF income >= Amt(1000000)
            THEN << [priority |-> "Medium",
                     action |-> "Consider National Pension System (NPS)",
                     amount |-> Amt(50000),
                     impact |-> 0] >>
            ELSE << >>)
_generate_action_items(constants, existing_80c, recommendations, income) ==
    LET remaining_80c == Remaining80c(constants, existing_80c)
        tax_bracket == TaxBracket(income)
    IN  (IF remaining_80c > 0
         THEN << [priority |-> "High",
                  action |-> "Invest remaining in 80C instruments",
                  amount |-> remaining_80c,
                  impact |-> BracketSaving(remaining_80c, tax_bracket)] >>
         ELSE << >>)
        \o << [priority |-> "Medium",
               action |-> "Review and optimize health insurance coverage",
               amount |-> Amt(25000),
               impact |-> BracketSaving(Amt(25000), tax_bracket)] >>
        \o (IF income > Amt(1000000)
            THEN << [priority |-> "Medium",
                     action |-> "Consider National Pension System (NPS)",
                     amount |-> Amt(50000),
                     impact |-> 0] >>
            ELSE << >>)

(* _mock_tax_calculation                                                   *)

\* The dictionary _mock_tax_calculation returns, from the two regime results
\* it has computed; clock is the reading of datetime.now().
MockResult(constants, financial_data, old_regime, new_regime, clock) ==
    LET annual_income == Float(Get(financial_data, "annual_income", 1200000))
        existing_80c == Float(Get(financial_data, "investments_80c", 50000))
        optimal_regime == OptimalRegime(old_regime.total_tax, new_regime.total_tax)
        tax_savings == Abs(old_regime.total_tax - new_regime.total_tax)
        recommendations ==
            _generate_investment_recommendations(constants, annual_income, existing_80c,
                                                 optimal_regime)
        extras == {"regime", "recommended", "taxBreakdown", "effectiveRate", "savings"}
    IN  [status |-> "success",
         timestamp |-> clock,
         calculations |->
            [old_regime |->
                [r \in extras |->
                    CASE r = "regime" -> "Old Regime"
                      [] r = "recommended" -> (optimal_regime = "old")
                      [] r = "taxBreakdown" ->
                            _get_tax_breakdown(constants, old_regime.taxable_income, "old")
                      [] r = "effectiveRate" ->
                            EffectiveRate(old_regime.total_tax, annual_income)
                      [] r = "savings" -> IF optimal_regime = "old" THEN tax_savings ELSE 0]
                @@ old_regime,
             new_regime |->
                [r \in extras |->
                    CASE r = "regime" -> "New Regime"
                      [] r = "recommended" -> (optimal_regime = "new")
                      [] r = "taxBreakdown" ->
                            _get_tax_breakdown(constants, new_regime.taxable_income, "new")
                      [] r = "effectiveRate" ->
                            EffectiveRate(new_regime.total_tax, annual_income)
                      [] r = "savings" -> IF optimal_regime = "new" THEN tax_savings ELSE 0]
                @@ new_regime,
             comparison |->
                [optimal_regime |-> optimal_regime,
                 tax_savings |-> tax_savings,
                 savings_percentage |->
                    SavingsPercentage(tax_savings, old_regime.total_tax, new_regime.total_tax),
                 recommendation_reason |->
                    _get_recommendation_reason(annual_income, existing_80c,
                                               optimal_regime, tax_savings)],
             recommendations |-> recommendations,
             action_items |->
                _generate_action_items(constants, existing_80c, recommendations, annual_income),
             investment_suggestions |->
                _get_investment_suggestions_for_frontend(constants, annual_income, existing_80c),
             tax_planning_tips |-> _get_tax_planning_tips(annual_income, optimal_regime)]]

\* old_regime = self._calculate_old_regime(...) on the extracted values
OldRegimeOf(constants, financial_data) ==
    _calculate_old_regime(constants,
                          Float(Get(financial_data, "annual_income", 1200000)),
                          Float(Get(financial_data, "investments_80c", 50000)),
                          Float(Get(financial_data, "health_insurance", 0)),
                          Float(Get(financial_data, "home_loan_interest", 0)),
                          Float(Get(financial_data, "hra_claimed", 0)))

\* new_regime = self._calculate_new_regime(annual_income)
NewRegimeOf(constants, financial_data) ==
    _calculate_new_regime(constants, Float(Get(financial_data, "annual_income", 1200000)))

_mock_tax_calculation(constants, financial_data, clock) ==
    MockResult(constants, financial_data,
               OldRegimeOf(constants, financial_data),
               NewRegimeOf(constants, financial_data), clock)

(* ---------------------------------------------------------------------- *)
(* The AI agent: __init__ / _initialize_agent, swarms_compat                *)
(* ---------------------------------------------------------------------- *)

\* agent_creator as create_agent() returns it: None, a creator of a swarms
\* Agent (strategies 1 and 2) or the creator of a GroqAPIAgent (strategy 3)
AgentCreators == {"None", "create_groq_agent", "create_api_agent"}

\* use_real_agent and agent after __init__(use_real_agent) has run
\* _initialize_agent; raised says whether agent_creator(...) raised.
_initialize_agent(use_real, agent_creator, raised) ==
    IF use_real /\ agent_creator # "None"
    THEN IF raised
         THEN [use_real_agent |-> FALSE, agent |-> "None"]
         ELSE [use_real_agent |-> use_real,
               agent |-> IF agent_creator = "create_api_agent"
                         THEN "GroqAPIAgent" ELSE "swarms.Agent"]
    ELSE [use_real_agent |-> use_real, agent |-> "None"]

AgentConfigs ==
    {_initialize_agent(u, c, r) : u \in BOOLEAN, c \in AgentCreators, r \in BOOLEAN}

\* What can happen when agent.run(prompt) is called: a swarms Agent returns
\* a text or raises; the HTTP request of a GroqAPIAgent answers 200 with a
\* text, answers another status, or fails with an exception.
NotCalled == [event |-> "not called", length |-> 0]

AiOutcomes(use_real, the_agent) ==
    IF use_real /\ the_agent = "swarms.Agent"
    THEN {[event |-> "raises", length |-> 0]}
         \cup {[event |-> "returns", length |-> n] : n \in ResponseLengths}
    ELSE IF use_real /\ the_agent = "GroqAPIAgent"
    THEN {[event |-> "status 200", length |-> n] : n \in ResponseLengths}
         \cup {[event |-> "status not 200", length |-> 500],
               [event |-> "request exception", length |-> 500]}
    ELSE {NotCalled}

\* GroqAPIAgent.run: the content on status 200, else a text that reports the
\* error; it never raises.
GroqAPIAgent_run(ai) ==
    [raised |-> FALSE,
     text |-> [kind |-> CASE ai.event = "status 200" -> "advice"
                          [] ai.event = "status not 200" -> "API Error: ..."
                          [] OTHER -> "Error: ...",
               length |-> ai.length]]

\* self.agent.run(prompt)
AgentRun(the_agent, ai) ==
    IF the_agent = "GroqAPIAgent" THEN GroqAPIAgent_run(ai)
    ELSE [raised |-> ai.event = "raises",
          text |-> [kind |-> "advice", length |-> ai.length]]

(* ---------------------------------------------------------------------- *)
(* calculate_tax_liability                                                 *)
(* ---------------------------------------------------------------------- *)

\* str(ai_response)[:500] + "..." if len(str(ai_response)) > 500 else str(ai_response)
\* (the variant keeps the whole response)
AiInsightsWhole(text) ==
    [kind |-> text.kind, length |-> text.length, ellipsis |-> FALSE]
AiInsights(text) ==
    [kind |-> text.kind, length |-> Min(text.length, 500), ellipsis |-> text.length > 500]

\* except Exception as ai_error: response_source = "Mock with AI Error"; the
\* variant lets the failure reach the outer handler and its error result
OnAiErrorPropagated(mock_result) ==
    [status |-> "error", message |-> "ai_error",
     calculations |-> [message |-> "Basic calculation provided due to processing error"]]
OnAiError(mock_result) ==
    [response_source |-> "Mock with AI Error"] @@ mock_result

\* ai_insights and response_source = "AI Enhanced" on the mock result
OnAiResponse(mock_result, text) ==
    [ai_insights |-> AiInsights(text), response_source |-> "AI Enhanced"] @@ mock_result

\* if self.use_real_agent and self.agent: ... else: ... on mock_result
EnhanceWithAi(mock_result, use_real, the_agent, ai) ==
    IF use_real /\ the_agent # "None"
    THEN LET run == AgentRun(the_agent, ai)
         IN  IF run.raised THEN OnAiError(mock_result)
             ELSE OnAiResponse(mock_result, run.text)
    ELSE [response_source |-> "Mock Calculation"] @@ mock_result

calculate_tax_liability(constants, use_real, the_agent, financial_data, clock, ai) ==
    EnhanceWithAi(_mock_tax_calculation(constants, financial_data, clock),
                  use_real, the_agent, ai)

(* ---------------------------------------------------------------------- *)
(* Inputs of any type: the exception handlers of the two public methods    *)
(* ---------------------------------------------------------------------- *)
(* A dictionary handed to a public method is modelled by the function of   *)
(* its numeric values together with the set non_numeric of the keys that   *)
(* are present with a value float() rejects (None, a text such as "abc").  *)

\* A call that ends with an exception reaching its caller
Raised(exception) == [exception |-> exception]

\* _fallback_calculation: income * 0.2 and income * 0.15 (in 1/5000 rupee)
\* of the income as it was submitted
_fallback_calculation(financial_data) ==
    LET income == Get(financial_data, "annual_income", 1200000)
    IN  [message |-> "Basic calculation provided due to processing error",
         estimated_tax_old_regime |-> income * 1000,
         estimated_tax_new_regime |-> income * 750,
         recommendation |-> "Consult tax advisor for detailed analysis"]

\* calculate_tax_liability with its handler.  float() of a value of
\* non_numeric raises in _mock_tax_calculation, before the AI agent and the
\* clock are used; the handler then calls _fallback_calculation, where
\* income * 0.2 raises TypeError on a non-numeric income and nothing
\* catches it.
calculate_tax_liability_or_error(constants, use_real, the_agent, financial_data, non_numeric, clock, ai) ==
    IF non_numeric = {}
    THEN calculate_tax_liability(constants, use_real, the_agent, financial_data, clock, ai)
    ELSE IF "annual_income" \in non_numeric
    THEN Raised("TypeError")
    ELSE [status |-> "error", message |-> "str(e)",
          calculations |-> _fallback_calculation(financial_data)]

(* ---------------------------------------------------------------------- *)
(* optimize_tax_strategy                                                   *)
(* ---------------------------------------------------------------------- *)
(* A user profile is [profile, non_numeric, investments_not_dict]: profile *)
(* holds the numeric values of annual_income, age and of the keys 80c, 80d *)
(* and home_loan of existing_investments; investments_not_dict says that   *)
(* existing_investments is present and is not a dictionary (None).         *)
(* risk_appetite is left out of the profiles: it is only copied.           *)

\* The key of financial_data a key of the user profile is copied to
FieldOf(user_key) ==
    CASE user_key = "annual_income" -> "annual_income"
      [] user_key = "80c"           -> "investments_80c"
      [] user_key = "80d"           -> "health_insurance"
      [] user_key = "home_loan"     -> "home_loan_interest"

\* financial_data = {"annual_income": user_profile.get('annual_income', 1200000), ...}:
\* the four keys are always present; a non-numeric value is copied as it is.
\* The variant takes 0 as the default of the 80C investment.
FinancialDataDefaultZero(profile, non_numeric) ==
    LET FinancialData ==
            [annual_income |-> Get(profile, "annual_income", 1200000),
             investments_80c |-> Get(profile, "80c", 0),
             health_insurance |-> Get(profile, "80d", 0),
             home_loan_interest |-> Get(profile, "home_loan", 0)]
        copied == {FieldOf(k) : k \in non_numeric}
    IN  [financial_data |-> [k \in DOMAIN FinancialData \ copied |-> FinancialData[k]],
         non_numeric |-> copied]
FinancialDataOf(profile, non_numeric) ==
    LET FinancialData ==
            [annual_income |-> Get(profile, "annual_income", 1200000),
             investments_80c |-> Get(profile, "80c", 50000),
             health_insurance |-> Get(profile, "80d", 0),
             home_loan_interest |-> Get(profile, "home_loan", 0)]
        copied == {FieldOf(k) : k \in non_numeric}
    IN  [financial_data |-> [k \in DOMAIN FinancialData \ copied |-> FinancialData[k]],
         non_numeric |-> copied]

_determine_tax_bracket(income) ==
    IF income <= 500000 THEN "5%"
    ELSE IF income <= 1000000 THEN "20%"
    ELSE "30%"

\* The categories of the recommendations, in the order they are appended
_get_personalized_recommendations(profile) ==
    LET age == Get(profile, "age", 30)
        income == Get(profile, "annual_income", 1200000)
    IN  <<IF age < 35 THEN "Long-term Wealth Creation"
          ELSE IF age < 50 THEN "Balanced Approach"
          ELSE "Conservative Strategy">>
        \o (IF income > 1000000 THEN <<"Advanced Tax Planning">> ELSE <<>>)

_create_timeline_strategy ==
    [April_June |-> <<"Plan annual investment strategy",
                      "Set up SIPs for ELSS funds",
                      "Review previous year's tax filing">>,
     July_September |-> <<"Track mid-year investment progress",
                          "Review salary structure for tax optimization",
                          "Plan any major purchases">>,
     October_December |-> <<"Accelerate investments if behind target",
                            "Plan year-end tax-saving purchases",
                            "Review insurance needs">>,
     January_March |-> <<"Final investment push for 80C/80D",
                         "Gather all tax documents",
                         "File income tax return",
                         "Pay advance tax if applicable">>]

_create_compliance_checklist ==
    <<"Maintain all investment receipts and certificates (80C, 80D)",
      "Keep TDS certificates from salary and other sources",
      "Save rent receipts and HRA calculation documents",
      "Document home loan interest certificates",
      "Keep bank statements for all financial transactions",
      "File ITR before due date (July 31st for individuals)",
      "Pay advance tax if total liability exceeds 10,000",
      "Link PAN with Aadhaar",
      "Update bank accounts with PAN details",
      "Maintain Form 16 from employer">>

\* _get_fallback_strategy on a numeric income: min(150000 * 0.30, income * 0.1)
\* in 1/5000 rupee
_get_fallback_strategy(profile) ==
    LET income == Get(profile, "annual_income", 1200000)
        age == Get(profile, "age", 30)
    IN  [basic_recommendations |->
             <<"Maximize 80C investments up to 1.5L limit",
               "Consider health insurance for 80D benefits",
               "Plan investments before March 31st">>,
         suggested_80c_allocation |->
             [ELSS |-> IF age < 40 THEN 50000 ELSE 30000,
              PPF |-> 50000, NSC |-> 25000, Life_Insurance |-> 25000],
         estimated_tax_savings |-> Min(Tx(45000), income * 500),
         priority_actions |->
             <<"Complete 80C investments",
               "Buy adequate health insurance",
               "Plan advance tax payments">>]

\* except Exception as e: of optimize_tax_strategy.  income * 0.1 in
\* _get_fallback_strategy raises TypeError on a non-numeric income, inside
\* the handler.
OnStrategyError(user) ==
    IF "annual_income" \in user.non_numeric
    THEN Raised("TypeError")
    ELSE [status |-> "error", message |-> "str(e)",
          fallback_strategy |-> _get_fallback_strategy(user.profile)]

\* strategy["ai_recommendations"] = str(ai_insights)[:300] + "...", or
\* "AI insights unavailable" when agent.run raised
AiRecommendations(the_agent, ai) ==
    LET run == AgentRun(the_agent, ai)
    IN  IF run.raised
        THEN [kind |-> "AI insights unavailable", length |-> 23, ellipsis |-> FALSE]
        ELSE [kind |-> run.text.kind, length |-> Min(run.text.length, 300),
              ellipsis |-> TRUE]

\* strategy = {...} with the result of the embedded calculation, whatever
\* its status is
StrategyOf(profile, tax_calculation) ==
    LET age == Get(profile, "age", 30)
        income == Get(profile, "annual_income", 1200000)
    IN  [user_profile_analysis |->
             [age_category |-> IF age < 35 THEN "young"
                               ELSE IF age < 50 THEN "middle_aged" ELSE "senior",
              tax_bracket |-> _determine_tax_bracket(income),
              optimization_potential |-> IF income > 800000 THEN "high" ELSE "medium",
              risk_profile |-> "moderate"],
         tax_calculations |-> tax_calculation.calculations,
         personalized_recommendations |-> _get_personalized_recommendations(profile),
         timeline_strategy |-> _create_timeline_strategy,
         compliance_checklist |-> _create_compliance_checklist]

\* optimize_tax_strategy(user_profile).  ai is what the AI agent does in the
\* embedded calculate_tax_liability, ai_strategy what it does when asked for
\* the strategy; the timestamp is read after the one of the calculation.
optimize_tax_strategy(constants, use_real, the_agent, user, clock, ai, ai_strategy) ==
    IF user.investments_not_dict
    THEN OnStrategyError(user)
    ELSE LET data == FinancialDataOf(user.profile, user.non_numeric)
             tax_calculation ==
                 calculate_tax_liability_or_error(constants, use_real, the_agent,
                                                  data.financial_data, data.non_numeric,
                                                  clock, ai)
             strategy == StrategyOf(user.profile, tax_calculation)
         IN  IF "exception" \in DOMAIN tax_calculation
             THEN OnStrategyError(user)
             ELSE [status |-> "success",
                   strategy |->
                       IF use_real /\ the_agent # "None"
                       THEN [ai_recommendations |-> AiRecommendations(the_agent, ai_strategy)]
                            @@ strategy
                       ELSE strategy,
                   timestamp |-> clock + 1]

(* ---------------------------------------------------------------------- *)
(* State machine                                                           *)
(* ---------------------------------------------------------------------- *)

\* A thread that is not inside calculate_tax_liability
Idle == [pc |-> "idle"]

\* The agent as constructed, with the given configurations of the AI agent
Constructed(configs) ==
    /\ tax_constants = InitialTaxConstants
    /\ \E cfg \in configs : use_real_agent = cfg.use_real_agent /\ agent = cfg.agent
    /\ now = 0
    /\ threads = [t \in Threads |-> Idle]
    /\ call = [op |-> "__init__"]
    /\ ret = [status |-> "constructed"]

\* An agent that does not use a real AI agent: constructed with
\* use_real_agent = False, or the creation of the AI agent raised
Init == Constructed({cfg \in AgentConfigs : ~cfg.use_real_agent})

\* An agent constructed with use_real_agent = True: it has a swarms Agent, a
\* GroqAPIAgent, or (without an agent_creator) no AI agent
AiInit == Constructed({cfg \in AgentConfigs : cfg.use_real_agent})

(* The two pure evaluators, called directly on a taxable income.           *)

\* A direct call agent._calculate_tax_by_slabs(T, <slabs of regime>)
CallCalculateTaxBySlabs ==
    \E T \in TaxableIncomes, regime \in {"old", "new"} :
        /\ call' = [op |-> "_calculate_tax_by_slabs", taxable_income |-> T, regime |-> regime]
        /\ ret' = [tax |-> _calculate_tax_by_slabs(Amt(T), SlabsOf(tax_constants, regime))]
        /\ UNCHANGED <<tax_constants, use_real_agent, agent, now, threads>>

\* A direct call agent._get_tax_breakdown(T, regime)
CallGetTaxBreakdown ==
    \E T \in TaxableIncomes, regime \in {"old", "new"} :
        /\ call' = [op |-> "_get_tax_breakdown", taxable_income |-> T, regime |-> regime]
        /\ ret' = [taxBreakdown |-> _get_tax_breakdown(tax_constants, Amt(T), regime)]
        /\ UNCHANGED <<tax_constants, use_real_agent, agent, now, threads>>

SlabNext ==
    \/ CallCalculateTaxBySlabs
    \/ CallGetTaxBreakdown

SlabSpec == Init /\ [][SlabNext]_vars

(* The request handler.                                                    *)

\* The profile of the latest request, if there was one
LastProfiles == IF call.op = "calculate_tax_liability" THEN {call.financial_data} ELSE {}

\* The requests that can follow: the first one is any profile with any
\* behaviour of the AI agent; a later one changes one key of the profile, or
\* repeats the profile with any behaviour of the AI agent.
RequestProfiles == IF use_real_agent THEN AiProfiles ELSE Profiles

NextRequests ==
    IF LastProfiles = {}
    THEN RequestProfiles \X AiOutcomes(use_real_agent, agent)
    ELSE ({p \in OneKeyAway(call.financial_data) : use_real_agent => IsAiProfile(p)}
              \X {call.ai})
         \cup ({call.financial_data} \X AiOutcomes(use_real_agent, agent))

\* A request agent.calculate_tax_liability(financial_data)
CallCalculateTaxLiability ==
    /\ now < MaxClock
    /\ \E request \in NextRequests :
        /\ call' = [op |-> "calculate_tax_liability",
                    financial_data |-> request[1], ai |-> request[2]]
        /\ ret' = calculate_tax_liability(tax_constants, use_real_agent, agent,
                                          request[1], now + 1, request[2])
    /\ now' = now + 1
    /\ UNCHANGED <<tax_constants, use_real_agent, agent, threads>>

Next ==
    \/ CallCalculateTaxLiability

Spec == Init /\ [][Next]_vars

AiSpec == AiInit /\ [][Next]_vars

(* Concurrent requests: each thread runs calculate_tax_liability step by   *)
(* step; a step reads the shared attributes of the agent as they are when   *)
(* it is taken.                                                            *)

\* An agent in any of its configurations
ConcInit == Constructed(AgentConfigs)

\* The calls begun so far whose timestamp is not read yet
Pending == {t \in Threads : threads[t].pc \in {"old_regime", "new_regime", "mock_result"}}

\* Thread t enters calculate_tax_liability(financial_data)
Begin(t) ==
    /\ threads[t].pc = "idle"
    /\ now + Cardinality(Pending) < MaxClock
    /\ \E financial_data \in ConcProfiles, ai \in AiOutcomes(use_real_agent, agent) :
          threads' = [threads EXCEPT
                         ![t] = [pc |-> "old_regime", financial_data |-> financial_data,
                                 ai |-> ai]]
    /\ UNCHANGED <<tax_constants, use_real_agent, agent, now, call, ret>>

\* old_regime = self._calculate_old_regime(...)
StepOldRegime(t) ==
    /\ threads[t].pc = "old_regime"
    /\ LET old_regime == OldRegimeOf(tax_constants, threads[t].financial_data)
       IN  /\ threads' = [threads EXCEPT
                             ![t] = [pc |-> "new_regime", old_regime |-> old_regime] @@ @]
           /\ tax_constants' =
                 [tax_constants EXCEPT
                     !.old_regime_slabs = SlabsAfterEvaluation(@, old_regime.taxable_income)]
    /\ UNCHANGED <<use_real_agent, agent, now, call, ret>>

\* new_regime = self._calculate_new_regime(annual_income)
StepNewRegime(t) ==
    /\ threads[t].pc = "new_regime"
    /\ LET new_regime == NewRegimeOf(tax_constants, threads[t].financial_data)
       IN  /\ threads' = [threads EXCEPT
                             ![t] = [pc |-> "mock_result", new_regime |-> new_regime] @@ @]
           /\ tax_constants' =
                 [tax_constants EXCEPT
                     !.new_regime_slabs = SlabsAfterEvaluation(@, new_regime.taxable_income)]
    /\ UNCHANGED <<use_real_agent, agent, now, call, ret>>

\* The rest of _mock_tax_calculation: the dictionary with its timestamp
StepMockResult(t) ==
    /\ threads[t].pc = "mock_result"
    /\ now' = now + 1
    /\ threads' = [threads EXCEPT
                      ![t] = [pc |-> "agent",
                              mock_result |->
                                  MockResult(tax_constants, @.financial_data,
                                             @.old_regime, @.new_regime, now + 1)] @@ @]
    /\ UNCHANGED <<tax_constants, use_real_agent, agent, call, ret>>

\* The branch on self.use_real_agent and self.agent, and the return
StepAgentAndReturn(t) ==
    /\ threads[t].pc = "agent"
    /\ call' = [op |-> "calculate_tax_liability",
                financial_data |-> threads[t].financial_data, ai |-> threads[t].ai]
    /\ ret' = EnhanceWithAi(threads[t].mock_result, use_real_agent, agent, threads[t].ai)
    /\ threads' = [threads EXCEPT ![t] = Idle]
    /\ UNCHANGED <<tax_constants, use_real_agent, agent, now>>

ConcNext ==
    \E t \in Threads :
        \/ Begin(t)
        \/ StepOldRegime(t)
        \/ StepNewRegime(t)
        \/ StepMockResult(t)
        \/ StepAgentAndReturn(t)

ConcSpec == ConcInit /\ [][ConcNext]_vars

(* The two public methods, called with values of any type.                 *)

\* The dictionaries financial_data of the requests
ApiRequests ==
    {[financial_data |-> [k \in DOMAIN p \ N |-> p[k]], non_numeric |-> N] :
        p \in ApiProfiles, N \in AtMostOne(Keys)}

\* The dictionaries user_profile of the requests: existing_investments is a
\* dictionary (or absent), or it is None and holds no key
UserRequests ==
    {[profile |-> [k \in DOMAIN p \ N |-> p[k]], non_numeric |-> N,
      investments_not_dict |-> FALSE] :
        p \in UserProfiles, N \in AtMostOne(UserKeys \ {"age"})}
    \cup {[profile |-> [k \in DOMAIN p \ (N \cup InvestmentKeys) |-> p[k]],
           non_numeric |-> N, investments_not_dict |-> TRUE] :
             p \in UserProfiles, N \in AtMostOne({"annual_income"})}

\* What the AI agent does when it is asked for the strategy
StrategyOutcomes(use_real, the_agent) ==
    {ai \in AiOutcomes(use_real, the_agent) : ai.length <= 500}

\* A request agent.calculate_tax_liability(financial_data), any values
CallCalculateTaxLiabilityOnAny ==
    /\ now < MaxClock
    /\ \E request \in ApiRequests, ai \in AiOutcomes(use_real_agent, agent) :
        /\ call' = [op |-> "calculate_tax_liability",
                    financial_data |-> request.financial_data,
                    non_numeric |-> request.non_numeric, ai |-> ai]
        /\ ret' = calculate_tax_liability_or_error(tax_constants, use_real_agent, agent,
                                                   request.financial_data,
                                                   request.non_numeric, now + 1, ai)
    /\ now' = now + 1
    /\ UNCHANGED <<tax_constants, use_real_agent, agent, threads>>

\* A request agent.optimize_tax_strategy(user_profile): the clock is read in
\* the embedded calculation and again for the timestamp of the strategy
CallOptimizeTaxStrategy ==
    /\ now + 1 < MaxClock
    /\ \E user \in UserRequests, ai \in AiOutcomes(use_real_agent, agent),
          ai_strategy \in StrategyOutcomes(use_real_agent, agent) :
        /\ call' = [op |-> "optimize_tax_strategy", user_profile |-> user,
                    ai |-> ai, ai_strategy |-> ai_strategy]
        /\ ret' = optimize_tax_strategy(tax_constants, use_real_agent, agent, user,
                                        now + 1, ai, ai_strategy)
    /\ now' = now + 2
    /\ UNCHANGED <<tax_constants, use_real_agent, agent, threads>>

ApiNext ==
    \/ CallCalculateTaxLiabilityOnAny
    \/ CallOptimizeTaxStrategy

ApiSpec == ConcInit /\ [][ApiNext]_vars

(* ---------------------------------------------------------------------- *)
(* Properties                                                              *)
(* ---------------------------------------------------------------------- *)

IsSlabCall == call.op = "_calculate_tax_by_slabs"
IsBreakdownCall == call.op = "_get_tax_breakdown"
IsLiabilityCall == call.op = "calculate_tax_liability"

RECURSIVE SumOver(_, _)
SumOver(seq, field) ==
    IF seq = <<>> THEN 0 ELSE Head(seq)[field] + SumOver(Tail(seq), field)

\* The brackets of standard marginal-rate taxation, in whole rupees: the
\* rupees above lo and up to hi are taxed at rate per cent.
Brackets(regime) ==
    IF regime = "old"
    THEN << [lo |-> 0, hi |-> 250000, rate |-> 0],
            [lo |-> 250000, hi |-> 500000, rate |-> 5],
            [lo |-> 500000, hi |-> 1000000, rate |-> 20],
            [lo |-> 1000000, hi |-> inf, rate |-> 30] >>
    ELSE << [lo |-> 0, hi |-> 300000, rate |-> 0],
            [lo |-> 300000, hi |-> 600000, rate |-> 5],
            [lo |-> 600000, hi |-> 900000, rate |-> 10],
            [lo |-> 900000, hi |-> 1200000, rate |-> 15],
            [lo |-> 1200000, hi |-> 1500000, rate |-> 20],
            [lo |-> 1500000, hi |-> inf, rate |-> 30] >>

\* Tax on T rupees when every rupee is taxed once at its bracket's rate
\* (one rupee at rate per cent is 50 * rate units of 1/5000 rupee).
RECURSIVE MarginalTaxFrom(_, _, _)
MarginalTaxFrom(i, T, brackets) ==
    IF i > Len(brackets) THEN 0
    ELSE Max(0, Min(T, brackets[i].hi) - brackets[i].lo) * brackets[i].rate * 50
         + MarginalTaxFrom(i + 1, T, brackets)

MarginalTax(T, regime) == MarginalTaxFrom(1, T, Brackets(regime))

\* C1: for each regime and every integer taxable income T >= 0 the raw tax
\* of _calculate_tax_by_slabs is the marginal-rate tax: every rupee of T is
\* taxed exactly once at the rate of the bracket it falls in (old regime at
\* T = 500000: 12500).
C1_MarginalRateSemantics ==
    IsSlabCall => ret.tax = MarginalTax(call.taxable_income, call.regime)

\* C2: raw tax is non-decreasing in taxable income: of two consecutive
\* evaluations for the same regime, the one with the larger (or equal)
\* taxable income returns the larger (or equal) raw tax.
C2_RawTaxNonDecreasing ==
    [][(/\ IsSlabCall
        /\ call'.op = "_calculate_tax_by_slabs"
        /\ call'.regime = call.regime
        /\ call.taxable_income <= call'.taxable_income)
       => ret.tax <= ret'.tax]_vars

\* An evaluation above the second slab boundary with a positive raw tax.
C2_Witness ==
    /\ IsSlabCall
    /\ call.taxable_income > 500001
    /\ ret.tax > 0

\* C3: the taxable_amount fields of the breakdown returned by
\* _get_tax_breakdown(T, regime) add up to T exactly.
C3_BreakdownCoversIncome ==
    IsBreakdownCall =>
        SumOver(ret.taxBreakdown, "taxable_amount") = Amt(call.taxable_income)

Regimes == {"old_regime", "new_regime"}

C5_DeductionCaps ==
    IsLiabilityCall =>
        LET old == ret.calculations.old_regime
            fd == call.financial_data
        IN  /\ old.deductions.section_80c <= Amt(150000)
            /\ old.deductions.section_80d <= Amt(25000)
            /\ old.deductions.section_24b <= Amt(200000)
            /\ 2 * old.deductions.hra <= old.gross_income
            /\ ("annual_income" \in DOMAIN fd /\ "investments_80c" \in DOMAIN fd
                /\ fd["annual_income"] = 2000000 /\ fd["investments_80c"] = 200000)
               => old.deductions.section_80c = Amt(150000)

\* The scenario: income 2000000, 80C contribution 200000 (above the cap).
C5_Witness ==
    /\ IsLiabilityCall
    /\ "annual_income" \in DOMAIN call.financial_data
    /\ "investments_80c" \in DOMAIN call.financial_data
    /\ call.financial_data["annual_income"] = 2000000
    /\ call.financial_data["investments_80c"] = 200000
    /\ ret.calculations.old_regime.deductions.section_80c = Amt(150000)

\* A profile that gives all five fields, none negative.
FullNonNegative(fd) == DOMAIN fd = Keys /\ \A k \in Keys : fd[k] >= 0

\* C6: for a profile with non-negative fields, deductions.total =
\* 50000 + min(80C, 150000) + min(health insurance, 25000)
\* + min(home loan interest, 200000) + min(hra, 0.5 * gross income), and
\* taxable_income = max(0, gross income - deductions.total); the standard
\* deduction is 50000 regardless of income.
C6_OldRegimeDeductions ==
    (IsLiabilityCall /\ FullNonNegative(call.financial_data)) =>
        LET old == ret.calculations.old_regime
            fd == call.financial_data
            income == fd["annual_income"]
        IN  /\ old.deductions.standard_deduction = Amt(50000)
            /\ old.deductions.total =
                   Amt(50000)
                   + Amt(Min(fd["investments_80c"], 150000))
                   + Amt(Min(fd["health_insurance"], 25000))
                   + Amt(Min(fd["home_loan_interest"], 200000))
                   + Min(Amt(fd["hra_claimed"]), income)
            /\ old.taxable_income = Max(0, Amt(income) - old.deductions.total)

\* A profile whose deductions exceed its income, so that the clamp acts,
\* with an odd income whose half is not a whole rupee.
C6_Witness ==
    /\ IsLiabilityCall
    /\ FullNonNegative(call.financial_data)
    /\ call.financial_data["annual_income"] = 1
    /\ call.financial_data["hra_claimed"] > 0
    /\ ret.calculations.old_regime.deductions.hra = 1
    /\ ret.calculations.old_regime.taxable_income = 0

\* The profile of the scenario: income 800000, 80C 50000, health insurance
\* 15000, home loan interest 80000, no HRA.
IsScenario800k(fd) ==
    /\ Get(fd, "hra_claimed", 0) = 0
    /\ DOMAIN fd \ {"hra_claimed"} =
           {"annual_income", "investments_80c", "health_insurance", "home_loan_interest"}
    /\ fd["annual_income"] = 800000
    /\ fd["investments_80c"] = 50000
    /\ fd["health_insurance"] = 15000
    /\ fd["home_loan_interest"] = 80000

\* C7 as stated: the scenario gives old-regime taxable income 555000 and
\* new-regime taxable income 750000.
C7_Scenario800kAsStated ==
    (IsLiabilityCall /\ IsScenario800k(call.financial_data)) =>
        /\ ret.calculations.old_regime.taxable_income = Amt(555000)
        /\ ret.calculations.new_regime.taxable_income = Amt(750000)

\* C7: the scenario gives old-regime taxable income 605000
\* (800000 - (50000 + 50000 + 15000 + 80000 + 0)) and new-regime taxable
\* income 750000.
C7_Scenario800k ==
    (IsLiabilityCall /\ IsScenario800k(call.financial_data)) =>
        /\ ret.calculations.old_regime.taxable_income = Amt(605000)
        /\ ret.calculations.new_regime.taxable_income = Amt(750000)

\* The scenario has been computed.
C7_Witness ==
    /\ IsLiabilityCall
    /\ IsScenario800k(call.financial_data)
    /\ ret.status = "success"
    /\ ret.calculations.old_regime.deductions.total = Amt(195000)

\* The gross income a request is computed on (annual_income, or its default).
IncomeOf(fd) == Get(fd, "annual_income", 1200000)

\* C8: the new-regime result depends only on gross income: taxable_income =
\* max(0, gross income - 50000), every section deduction is 0 and
\* deductions.total = 50000; two requests with the same income and
\* different other fields get the same new-regime taxable income and tax.
C8_NewRegimeOnlyIncome ==
    /\ [](IsLiabilityCall =>
            LET new == ret.calculations.new_regime
            IN  /\ new.taxable_income = Max(0, Amt(IncomeOf(call.financial_data)) - Amt(50000))
                /\ new.deductions.section_80c = 0
                /\ new.deductions.section_80d = 0
                /\ new.deductions.section_24b = 0
                /\ new.deductions.hra = 0
                /\ new.deductions.total = Amt(50000))
    /\ [][(/\ IsLiabilityCall
           /\ call'.op = "calculate_tax_liability"
           /\ IncomeOf(call'.financial_data) = IncomeOf(call.financial_data))
          => /\ ret'.calculations.new_regime.taxable_income
                    = ret.calculations.new_regime.taxable_income
             /\ ret'.calculations.new_regime.total_tax
                    = ret.calculations.new_regime.total_tax]_vars

\* A request whose section deductions make the old regime differ from the
\* new one, while the new regime ignores them.
C8_Witness ==
    /\ IsLiabilityCall
    /\ Get(call.financial_data, "investments_80c", 50000) = 200000
    /\ Get(call.financial_data, "home_loan_interest", 0) = 250000
    /\ ret.calculations.new_regime.total_tax > 0
    /\ ret.calculations.old_regime.taxable_income < ret.calculations.new_regime.taxable_income

\* C9: optimal_regime names a regime whose total_tax is at most the other's;
\* exactly one of the two recommended flags is true, the one of the regime
\* optimal_regime names.
C9_OptimalRegimeIsCheapest ==
    IsLiabilityCall =>
        LET c == ret.calculations
            opt == c.comparison.optimal_regime
        IN  /\ opt \in {"old", "new"}
            /\ opt = "old" => c.old_regime.total_tax <= c.new_regime.total_tax
            /\ opt = "new" => c.new_regime.total_tax <= c.old_regime.total_tax
            /\ c.old_regime.recommended <=> opt = "old"
            /\ c.new_regime.recommended <=> opt = "new"
            /\ c.old_regime.recommended # c.new_regime.recommended

\* A request for which the old regime is strictly cheaper.
C9_Witness ==
    /\ IsLiabilityCall
    /\ ret.calculations.old_regime.total_tax < ret.calculations.new_regime.total_tax
    /\ ret.calculations.comparison.optimal_regime = "old"
    /\ ret.calculations.old_regime.recommended

IsTie == ret.calculations.old_regime.total_tax = ret.calculations.new_regime.total_tax

C11Denominator ==
    LET c == ret.calculations
    IN  IF c.old_regime.total_tax >= Tx(1) \/ c.new_regime.total_tax >= Tx(1)
        THEN Max(c.old_regime.total_tax, c.new_regime.total_tax)
        ELSE Tx(1)

\* C11 as stated: tax_savings = |old total_tax - new total_tax| and
\* savings_percentage is exactly tax_savings / max(old total_tax,
\* new total_tax, 1) x 100 (the division leaves nothing).
C11_SavingsPercentageAsStated ==
    IsLiabilityCall =>
        LET c == ret.calculations
            exact == PercentDivision(c.comparison.tax_savings, C11Denominator)
        IN  /\ c.comparison.tax_savings
                 = Abs(c.old_regime.total_tax - c.new_regime.total_tax)
            /\ c.comparison.savings_percentage = exact.q
            /\ exact.r = 0

\* C11: tax_savings = |old total_tax - new total_tax| >= 0, and
\* savings_percentage is non-negative and is tax_savings / max(old total_tax,
\* new total_tax, 1) x 100 rounded to two decimals (at most half a hundredth
\* away from it); with both taxes 0 it is 0.
C11_ComparatorSymmetry ==
    IsLiabilityCall =>
        LET c == ret.calculations
            old_tax == c.old_regime.total_tax
            new_tax == c.new_regime.total_tax
            exact == PercentDivision(c.comparison.tax_savings, C11Denominator)
            percent == c.comparison.savings_percentage
        IN  /\ c.comparison.tax_savings >= 0
            /\ \/ c.comparison.tax_savings = old_tax - new_tax
               \/ c.comparison.tax_savings = new_tax - old_tax
            /\ percent >= 0
            /\ percent \in {exact.q, exact.q + 1}
            /\ percent = exact.q => exact.r <= C11Denominator - exact.r
            /\ percent = exact.q + 1 => exact.r >= C11Denominator - exact.r
            /\ (old_tax = 0 /\ new_tax = 0) => percent = 0

\* A request whose two taxes differ and whose percentage is not a whole
\* number of hundredths, so that the rounding acts.
C11_Witness ==
    /\ IsLiabilityCall
    /\ ret.calculations.comparison.tax_savings > 0
    /\ PercentDivision(ret.calculations.comparison.tax_savings, C11Denominator).r > 0
    /\ ret.calculations.comparison.savings_percentage > 0

\* C12: a profile with annual_income 0 and no negative field gets status
\* "success" with taxable_income 0 and total_tax 0 in both regimes,
\* effectiveRate 0, tax_savings 0 and savings_percentage 0.
C12_ZeroIncome ==
    (/\ IsLiabilityCall
     /\ "annual_income" \in DOMAIN call.financial_data
     /\ call.financial_data["annual_income"] = 0
     /\ \A k \in DOMAIN call.financial_data : call.financial_data[k] >= 0)
    => /\ ret.status = "success"
       /\ \A regime \in Regimes :
            /\ ret.calculations[regime].taxable_income = 0
            /\ ret.calculations[regime].total_tax = 0
            /\ ret.calculations[regime].effectiveRate = 0
       /\ ret.calculations.comparison.tax_savings = 0
       /\ ret.calculations.comparison.savings_percentage = 0

\* A request with income 0 and deductions claimed in every other field.
C12_Witness ==
    /\ IsLiabilityCall
    /\ FullNonNegative(call.financial_data)
    /\ call.financial_data["annual_income"] = 0
    /\ call.financial_data["investments_80c"] > 0
    /\ call.financial_data["health_insurance"] > 0
    /\ call.financial_data["home_loan_interest"] > 0
    /\ call.financial_data["hra_claimed"] > 0
    /\ ret.status = "success"
    /\ ret.calculations.old_regime.deductions.total > 0

\* C13: a request with a negative monetary field is rejected before any
\* computation: its result has a status other than "success" and carries no
\* regime results.
C13_NegativeFieldRejected ==
    (/\ IsLiabilityCall
     /\ \E k \in DOMAIN call.financial_data : call.financial_data[k] < 0)
    => /\ ret.status # "success"
       /\ "calculations" \notin DOMAIN ret

\* fd with the absent key x added with value 0
WithZero(fd, x) == [k \in DOMAIN fd \cup {x} |-> IF k = x THEN 0 ELSE fd[k]]

\* C14: a profile that omits a field gets the same calculations as the same
\* profile with that field present and equal to 0 (two consecutive requests:
\* the profile without the field, then the profile with the field set to 0).
C14_AbsentFieldIsZero ==
    [][(/\ IsLiabilityCall
        /\ call'.op = "calculate_tax_liability"
        /\ \E x \in Keys \ DOMAIN call.financial_data :
              call'.financial_data = WithZero(call.financial_data, x))
       => ret'.calculations = ret.calculations]_vars

\* The latest request reached agent.run and agent.run raised
AgentRunRaised ==
    /\ IsLiabilityCall
    /\ use_real_agent
    /\ agent # "None"
    /\ AgentRun(agent, call.ai).raised

\* C15: when the agent is in real-AI mode and agent.run raises, the result
\* has status "success" and its calculations are those the same request
\* gets from an agent without AI agent; it is not the error result with the
\* fallback calculation.
C15_AiFailureKeepsCalculations ==
    AgentRunRaised =>
        /\ ret.status = "success"
        /\ ret.calculations
             = calculate_tax_liability(tax_constants, FALSE, "None",
                                       call.financial_data, now, NotCalled).calculations
        /\ {"old_regime", "new_regime", "comparison", "recommendations", "action_items"}
             \subseteq DOMAIN ret.calculations
        /\ "estimated_tax_old_regime" \notin DOMAIN ret.calculations

\* A request to an agent with a swarms Agent whose run raises.
C15_Witness ==
    /\ AgentRunRaised
    /\ agent = "swarms.Agent"
    /\ call.ai.event = "raises"
    /\ ret.status = "success"
    /\ ret.response_source = "Mock with AI Error"

\* The advice-generation call of the latest request failed: agent.run raised,
\* or the request of the GroqAPIAgent got a status other than 200 or failed
\* with an exception.
AdviceCallFailed ==
    /\ IsLiabilityCall
    /\ use_real_agent
    /\ agent # "None"
    /\ call.ai.event \in {"raises", "status not 200", "request exception"}

\* C16: whenever the advice-generation call fails, the result carries no
\* ai_insights and its response_source is not "AI Enhanced".
C16_FailureMarksNarrativeAbsent ==
    AdviceCallFailed =>
        /\ "ai_insights" \notin DOMAIN ret
        /\ ret.response_source # "AI Enhanced"

\* C17: two requests with identical input to the same agent get results that
\* are identical in every field (two consecutive requests, on an agent
\* without AI agent).
C17_IdenticalOutput ==
    [][(/\ IsLiabilityCall
        /\ call'.op = "calculate_tax_liability"
        /\ call'.financial_data = call.financial_data)
       => ret' = ret]_vars

\* The calculations a request gets when it is the only one the agent ever
\* serves
CalculationsAlone(financial_data) ==
    _mock_tax_calculation(InitialTaxConstants, financial_data, 0).calculations

\* C18: no step of calculate_tax_liability modifies tax_constants,
\* use_real_agent or agent, so the slab tables and caps stay as constructed,
\* and under any interleaving of the steps of concurrent calls every call
\* returns the calculations it gets when run alone.
C18_NoSharedStateModified ==
    [][/\ tax_constants' = InitialTaxConstants
       /\ use_real_agent' = use_real_agent
       /\ agent' = agent
       /\ call'.op = "calculate_tax_liability"
            => ret'.calculations = CalculationsAlone(call'.financial_data)]_vars

\* A call has returned while another call, with another profile, that read
\* its timestamp earlier has not returned yet: the two calls overlapped.
C18_Witness ==
    /\ IsLiabilityCall
    /\ ret.status = "success"
    /\ \E t \in Threads :
          /\ threads[t].pc = "agent"
          /\ threads[t].mock_result.timestamp < ret.timestamp
          /\ threads[t].financial_data # call.financial_data

\* C19: when optimal_regime is "new", neither
\* recommendations.investment_suggestions nor the investment_suggestions
\* list of the calculations contains a section-80C entry.
C19_No80cSuggestionsUnderNew ==
    (IsLiabilityCall /\ ret.calculations.comparison.optimal_regime = "new")
    => LET c == ret.calculations
       IN  /\ \A i \in DOMAIN c.recommendations.investment_suggestions :
                c.recommendations.investment_suggestions[i].section # "80C"
           /\ \A i \in DOMAIN c.investment_suggestions :
                c.investment_suggestions[i].category # "80C"

\* The existing 80C contribution of a request (investments_80c, or its
\* default) and the 80C room it leaves, in rupees
Existing80c(fd) == Get(fd, "investments_80c", 50000)
Room80c(fd) == IF Existing80c(fd) >= 150000 THEN 0 ELSE 150000 - Existing80c(fd)

\* The positions of the entries of the given type in a list of suggestions
PositionsOf(suggestions, type) == {i \in DOMAIN suggestions : suggestions[i].type = type}

\* C20: when optimal_regime is "old" and the existing 80C contribution is
\* >= 0, with remaining = max(0, 150000 - existing 80C): there is an ELSS
\* suggestion iff remaining > 0 and its amount is min(remaining, 50000);
\* there is a PPF suggestion iff remaining exceeds the ELSS amount and its
\* amount is min(remaining - ELSS amount, 100000); ELSS precedes PPF; the two
\* amounts together are exactly remaining.
C20_EightyCSuggestions ==
    (/\ IsLiabilityCall
     /\ ret.calculations.comparison.optimal_regime = "old"
     /\ Existing80c(call.financial_data) >= 0)
    => LET s == ret.calculations.recommendations.investment_suggestions
           remaining == Room80c(call.financial_data)
           elss == PositionsOf(s, "ELSS Mutual Funds")
           ppf == PositionsOf(s, "Public Provident Fund (PPF)")
           elss_amount == IF remaining < 50000 THEN remaining ELSE 50000
           ppf_amount == IF remaining - elss_amount < 100000
                         THEN remaining - elss_amount ELSE 100000
       IN  /\ Cardinality(elss) = (IF remaining > 0 THEN 1 ELSE 0)
           /\ \A i \in elss : s[i].suggested_amount = Amt(elss_amount)
           /\ Cardinality(ppf) = (IF remaining > elss_amount THEN 1 ELSE 0)
           /\ \A i \in ppf : s[i].suggested_amount = Amt(ppf_amount)
           /\ \A i \in elss, j \in ppf : i < j
           /\ SumOver(SelectSeq(s, LAMBDA e : e.section = "80C"), "suggested_amount")
                = Amt(remaining)

\* A request with the old regime optimal and 80C room for both suggestions.
C20_Witness ==
    /\ IsLiabilityCall
    /\ ret.calculations.comparison.optimal_regime = "old"
    /\ Existing80c(call.financial_data) = 0
    /\ Len(ret.calculations.recommendations.investment_suggestions) = 3
    /\ ret.calculations.recommendations.investment_suggestions[2].suggested_amount
         = Amt(100000)

\* The marginal bracket for savings estimates, in per cent, as a step
\* function of the gross income in rupees
StepBracket(income_rupees) ==
    IF income_rupees > 1000000 THEN 30 ELSE IF income_rupees > 500000 THEN 20 ELSE 5

\* C21: every entry of recommendations.investment_suggestions has
\* tax_saving = suggested_amount x b(income), b being 30% above 1000000,
\* 20% above 500000 and 5% otherwise, and total_potential_savings is the sum
\* of the tax_saving values.
C21_SavingsUseStepBracket ==
    IsLiabilityCall =>
        LET r == ret.calculations.recommendations
            b == StepBracket(IncomeOf(call.financial_data))
        IN  /\ \A i \in DOMAIN r.investment_suggestions :
                  r.investment_suggestions[i].tax_saving
                    = r.investment_suggestions[i].suggested_amount * b * 25
            /\ r.total_potential_savings = SumOver(r.investment_suggestions, "tax_saving")

\* C22: whichever regime is optimal, recommendations.investment_suggestions
\* contains exactly one Health Insurance Premium (80D) entry, with
\* suggested_amount 25000, and it is the last entry of the list.
C22_HealthInsuranceLast ==
    IsLiabilityCall =>
        LET s == ret.calculations.recommendations.investment_suggestions
            health == PositionsOf(s, "Health Insurance Premium")
        IN  /\ health = {Len(s)}
            /\ Len(s) >= 1
            /\ \A i \in health : s[i].section = "80D" /\ s[i].suggested_amount = Amt(25000)
            /\ \A i \in DOMAIN s : s[i].section = "80D" => i \in health

\* A request with the new regime optimal: the only entry is the health
\* insurance one.
C22_Witness ==
    /\ IsLiabilityCall
    /\ ret.calculations.comparison.optimal_regime = "new"
    /\ Len(ret.calculations.recommendations.investment_suggestions) = 1
    /\ ret.calculations.recommendations.investment_suggestions[1].type
         = "Health Insurance Premium"

\* The action items expected for a request, as <<priority, action>> pairs
ExpectedActionItems(fd) ==
    (IF Room80c(fd) > 0
     THEN << <<"High", "Invest remaining in 80C instruments">> >> ELSE << >>)
    \o << <<"Medium", "Review and optimize health insurance coverage">> >>
    \o (IF IncomeOf(fd) > 1000000
        THEN << <<"Medium", "Consider National Pension System (NPS)">> >> ELSE << >>)

\* C23: action_items is, in this order, a High 'invest remaining 80C' item
\* iff max(0, 150000 - existing 80C) > 0, a Medium health-insurance item
\* always, a Medium NPS item iff income > 1000000; nothing else, and no High
\* item after a Medium one.
C23_ActionItemsOrder ==
    IsLiabilityCall =>
        LET items == ret.calculations.action_items
            expected == ExpectedActionItems(call.financial_data)
        IN  /\ Len(items) = Len(expected)
            /\ \A i \in DOMAIN items :
                  /\ items[i].priority = expected[i][1]
                  /\ items[i].action = expected[i][2]
            /\ \A i, j \in DOMAIN items :
                  (i < j /\ items[i].priority = "Medium") => items[j].priority # "High"

\* A request with 80C room and income above 1000000: all three items.
C23_Witness ==
    /\ IsLiabilityCall
    /\ Len(ret.calculations.action_items) = 3
    /\ ret.calculations.action_items[1].priority = "High"
    /\ ret.calculations.action_items[3].action = "Consider National Pension System (NPS)"

\* C24: whatever the deductions relative to the income, the taxable income
\* given to the slab evaluator and to the breakdown is >= 0 in both regimes,
\* and with taxable income 0 the tax is 0 and the breakdown is empty.
C24_TaxableIncomeClamped ==
    IsLiabilityCall =>
        \A regime \in Regimes :
            LET r == ret.calculations[regime]
            IN  /\ r.taxable_income >= 0
                /\ r.taxable_income = 0 =>
                      /\ r.tax_before_cess = 0
                      /\ r.total_tax = 0
                      /\ r.taxBreakdown = << >>

\* A request whose deductions exceed a positive income in the old regime,
\* while the new regime has taxable income left.
C24_Witness ==
    /\ IsLiabilityCall
    /\ IncomeOf(call.financial_data) > 0
    /\ ret.calculations.old_regime.deductions.total
         > ret.calculations.old_regime.gross_income
    /\ ret.calculations.old_regime.taxable_income = 0
    /\ ret.calculations.old_regime.taxBreakdown = << >>
    /\ ret.calculations.new_regime.taxable_income > 0

\* A slab table is sorted ascending by lower bound, starts at 0, each slab
\* begins where the previous one ends, and only the last slab is unbounded.
IsContiguousTable(tax_slabs) ==
    /\ Len(tax_slabs) >= 1
    /\ tax_slabs[1].min = 0
    /\ \A i \in DOMAIN tax_slabs : tax_slabs[i].min < tax_slabs[i].max
    /\ \A i \in DOMAIN tax_slabs \ {1} :
          /\ tax_slabs[i - 1].min < tax_slabs[i].min
          /\ tax_slabs[i].min = tax_slabs[i - 1].max
    /\ \A i \in DOMAIN tax_slabs : (tax_slabs[i].max = inf) <=> (i = Len(tax_slabs))

\* C27: both configured slab tables are sorted ascending, non-overlapping
\* and contiguous (each lower bound equals the previous upper bound), start
\* at 0, and only the final slab is unbounded.
C27_SlabTablesContiguous ==
    /\ IsContiguousTable(tax_constants.old_regime_slabs)
    /\ IsContiguousTable(tax_constants.new_regime_slabs)

\* C28: in each regime's result the tax fields of the taxBreakdown entries
\* sum to that regime's tax_before_cess.
C28_BreakdownSumsToTax ==
    IsLiabilityCall =>
        \A regime \in Regimes :
            SumOver(ret.calculations[regime].taxBreakdown, "tax")
              = ret.calculations[regime].tax_before_cess

\* C29: a status-"success" result carries response_source "AI Enhanced",
\* "Mock with AI Error" or "Mock Calculation"; it has ai_insights iff
\* response_source is "AI Enhanced"; response_source is "Mock Calculation"
\* iff no agent was invoked (use_real_agent false or agent None); and
\* ai_insights is the AI response when it has at most 500 characters, else
\* its first 500 characters followed by "...".
C29_ResponseSource ==
    (IsLiabilityCall /\ ret.status = "success") =>
        /\ ret.response_source \in {"AI Enhanced", "Mock with AI Error", "Mock Calculation"}
        /\ ("ai_insights" \in DOMAIN ret) <=> (ret.response_source = "AI Enhanced")
        /\ (ret.response_source = "Mock Calculation")
             <=> (~use_real_agent \/ agent = "None")
        /\ "ai_insights" \in DOMAIN ret =>
              /\ ret.ai_insights.length <= 500
              /\ call.ai.length <= 500 =>
                    (ret.ai_insights.length = call.ai.length /\ ~ret.ai_insights.ellipsis)
              /\ call.ai.length > 500 =>
                    (ret.ai_insights.length = 500 /\ ret.ai_insights.ellipsis)

\* A request whose AI response has 501 characters: the insights are its
\* first 500 characters and the ellipsis.
C29_Witness ==
    /\ IsLiabilityCall
    /\ ret.status = "success"
    /\ ret.response_source = "AI Enhanced"
    /\ call.ai.length = 501
    /\ ret.ai_insights.length = 500
    /\ ret.ai_insights.ellipsis

(* ---------------------------------------------------------------------- *)
(* Error handling of the two public methods (ApiSpec)                      *)
(* ---------------------------------------------------------------------- *)

IsOptimizeCall == call.op = "optimize_tax_strategy"

\* C25: for any input profile, including one whose field values are
\* non-numeric or null, calculate_tax_liability returns a result dictionary
\* (status "success", or status "error" with a message and fallback
\* figures) and no exception reaches the caller.
C25_AlwaysReturnsResult ==
    IsLiabilityCall =>
        /\ "exception" \notin DOMAIN ret
        /\ ret.status \in {"success", "error"}
        /\ ret.status = "error" =>
              /\ "message" \in DOMAIN ret
              /\ {"estimated_tax_old_regime", "estimated_tax_new_regime"}
                     \subseteq DOMAIN ret.calculations

\* The result of the calculate_tax_liability call embedded in the latest
\* optimize_tax_strategy call, when the call was made (it read the clock
\* one reading before the strategy did)
EmbeddedCalculation ==
    LET data == FinancialDataOf(call.user_profile.profile, call.user_profile.non_numeric)
    IN  calculate_tax_liability_or_error(tax_constants, use_real_agent, agent,
                                         data.financial_data, data.non_numeric,
                                         now - 1, call.ai)

EmbeddedCalculationFailed ==
    /\ IsOptimizeCall
    /\ ~call.user_profile.investments_not_dict
    /\ "status" \in DOMAIN EmbeddedCalculation
    /\ EmbeddedCalculation.status = "error"

\* C30: optimize_tax_strategy returns status "success" only if the tax
\* calculation it embeds succeeded: when the embedded calculate_tax_liability
\* call returns status "error", optimize_tax_strategy does not report
\* "success" with the fallback estimates in strategy.tax_calculations.
C30_SuccessOnlyIfCalculationSucceeded ==
    EmbeddedCalculationFailed =>
        ~(/\ ret.status = "success"
          /\ ret.strategy.tax_calculations = EmbeddedCalculation.calculations)

\* The financial_data that corresponds to a user profile: the values the
\* profile holds, under the names calculate_tax_liability reads; a key the
\* profile leaves out is left out
CorrespondingFinancialData(profile) ==
    LET held == DOMAIN profile \ {"age"}
    IN  [k \in {FieldOf(u) : u \in held} |->
            profile[CHOOSE u \in held : FieldOf(u) = k]]

\* A dictionary whose values are all non-negative numbers
NonNegativeNumbers(dictionary, non_numeric) ==
    /\ non_numeric = {}
    /\ \A k \in DOMAIN dictionary : dictionary[k] >= 0

NumericLiabilityCall ==
    /\ IsLiabilityCall
    /\ NonNegativeNumbers(call.financial_data, call.non_numeric)

NumericOptimizeCall ==
    /\ IsOptimizeCall
    /\ ~call.user_profile.investments_not_dict
    /\ NonNegativeNumbers(call.user_profile.profile, call.user_profile.non_numeric)

\* C26: for every profile whose fields are non-negative numbers, with or
\* without an AI agent, calculate_tax_liability returns status "success"
\* with calculations holding old_regime and new_regime (each with total_tax)
\* and comparison (optimal_regime "old" or "new", and tax_savings); and
\* optimize_tax_strategy on the corresponding user profile returns status
\* "success" with strategy.tax_calculations equal to those calculations.
C26_SuccessOnNumericProfiles ==
    /\ NumericLiabilityCall =>
          /\ ret.status = "success"
          /\ {"old_regime", "new_regime", "comparison"} \subseteq DOMAIN ret.calculations
          /\ "total_tax" \in DOMAIN ret.calculations.old_regime
          /\ "total_tax" \in DOMAIN ret.calculations.new_regime
          /\ ret.calculations.comparison.optimal_regime \in {"old", "new"}
          /\ "tax_savings" \in DOMAIN ret.calculations.comparison
    /\ NumericOptimizeCall =>
          /\ ret.status = "success"
          /\ ret.strategy.tax_calculations =
                calculate_tax_liability(tax_constants, use_real_agent, agent,
                                        CorrespondingFinancialData(call.user_profile.profile),
                                        now, call.ai).calculations

\* An agent with an AI agent answered optimize_tax_strategy for a profile
\* that leaves the 80C investment out, after the AI agent failed in the
\* embedded calculation
C26_Witness ==
    /\ NumericOptimizeCall
    /\ use_real_agent /\ agent = "swarms.Agent"
    /\ call.ai.event = "raises"
    /\ "80c" \notin DOMAIN call.user_profile.profile
    /\ ret.status = "success"
    /\ ret.strategy.tax_calculations.comparison.optimal_regime = "new"

====
